---- MODULE Spec2Model ----
(***************************************************************************)
(* Model of src/index.ts: the interactive story generation script `run`.   *)
(* One action per stretch of code between two awaits.  Strings are TLA+    *)
(* strings, arrays are sequences, objects are records.                     *)
(***************************************************************************)
EXTENDS Integers, Sequences, FiniteSets, TLC

VARIABLES pc, prompt, result, story, entityNames, segments, iter,
          generatedSegments, calls, files, trace

vars == <<pc, prompt, result, story, entityNames, segments, iter,
          generatedSegments, calls, files, trace>>

(***************************************************************************)
(* Bounds of the model.                                                    *)
(***************************************************************************)
\* The language model answers with segment plans of 0..MaxShortPlan segments
\* about each choice of entity, and with plans at the schema's limit.
MaxShortPlan == 3

(***************************************************************************)
(* String and array helpers (JavaScript built-ins used by run).            *)
(***************************************************************************)
RECURSIVE Repeat(_, _)
Repeat(s, n) == IF n <= 0 THEN "" ELSE s \o Repeat(s, n - 1)

\* the elements of arr from index i on, separated by sep
RECURSIVE JoinFrom(_, _, _)
JoinFrom(arr, i, sep) ==
  IF i > Len(arr) THEN ""
  ELSE IF i = Len(arr) THEN arr[i]
  ELSE arr[i] \o sep \o JoinFrom(arr, i + 1, sep)

\* Array.prototype.join
Join(arr, sep) == JoinFrom(arr, 1, sep)

\* Array.prototype.map(x => x.name)
Names(arr) == [i \in DOMAIN arr |-> arr[i].name]

Range(arr) == {arr[i] : i \in DOMAIN arr}

WhiteSpace == {" ", "\n", "\t"}

RECURSIVE TrimStart(_)
TrimStart(chars) ==
  IF chars /= <<>> /\ Head(chars) \in WhiteSpace THEN TrimStart(Tail(chars))
  ELSE chars

RECURSIVE TrimEnd(_)
TrimEnd(chars) ==
  IF chars /= <<>> /\ chars[Len(chars)] \in WhiteSpace
  THEN TrimEnd(SubSeq(chars, 1, Len(chars) - 1))
  ELSE chars

\* String.prototype.trim on the typed characters; the result is the string.
Trim(chars) == Join(TrimEnd(TrimStart(chars)), "")

(***************************************************************************)
(* JSON.stringify(value, null, 2) for the objects run interpolates.  The   *)
(* strings of the model hold no character that JSON escapes.               *)
(***************************************************************************)
Indent(n) == Repeat(" ", n)

JsonString(s) == "\"" \o s \o "\""

JsonStrings(arr) == [i \in DOMAIN arr |-> JsonString(arr[i])]

\* items: the rendered elements, each rendered at depth n + 2
JsonArray(items, n) ==
  IF items = <<>> THEN "[]"
  ELSE "[\n"
       \o Join([i \in DOMAIN items |-> Indent(n + 2) \o items[i]], ",\n")
       \o "\n" \o Indent(n) \o "]"

\* fields: <<key, rendered value>> pairs in the object's key order
JsonObject(fields, n) ==
  IF fields = <<>> THEN "{}"
  ELSE "{\n"
       \o Join([i \in DOMAIN fields |->
                  Indent(n + 2) \o JsonString(fields[i][1]) \o ": " \o fields[i][2]],
               ",\n")
       \o "\n" \o Indent(n) \o "}"

StringifyAnalysis(o) ==
  JsonObject(<< <<"type", JsonString(o.type)>>,
                <<"genres", JsonArray(JsonStrings(o.genres), 2)>>,
                <<"themes", JsonArray(JsonStrings(o.themes), 2)>>,
                <<"extraRequests", JsonArray(JsonStrings(o.extraRequests), 2)>>,
                <<"userInfo", JsonArray(JsonStrings(o.userInfo), 2)>>,
                <<"topicInformation", JsonArray(JsonStrings(o.topicInformation), 2)>> >>, 0)

StringifyEntity(e, n) ==
  JsonObject(<< <<"name", JsonString(e.name)>>,
                <<"description", JsonString(e.description)>>,
                <<"role", JsonString(e.role)>>,
                <<"traits", JsonArray(JsonStrings(e.traits), n + 2)>>,
                <<"strengths", JsonArray(JsonStrings(e.strengths), n + 2)>>,
                <<"weaknesses", JsonArray(JsonStrings(e.weaknesses), n + 2)>>,
                <<"motivation", JsonString(e.motivation)>> >>, n)

StringifyStory(o) ==
  JsonObject(<< <<"title", JsonString(o.title)>>,
                <<"entities",
                  JsonArray([i \in DOMAIN o.entities |-> StringifyEntity(o.entities[i], 4)], 2)>>,
                <<"setting",
                  JsonObject(<< <<"location", JsonString(o.setting.location)>>,
                                <<"timePeriod", JsonString(o.setting.timePeriod)>>,
                                <<"atmosphere", JsonString(o.setting.atmosphere)>> >>, 2)>>,
                <<"plotPoints", JsonArray(JsonStrings(o.plotPoints), 2)>> >>, 0)

StringifySegmentEntity(e, n) ==
  JsonObject(<< <<"name", JsonString(e.name)>>,
                <<"mood", JsonString(e.mood)>> >>, n)

StringifySegment(s) ==
  JsonObject(<< <<"title", JsonString(s.title)>>,
                <<"entities",
                  JsonArray([i \in DOMAIN s.entities |->
                               StringifySegmentEntity(s.entities[i], 4)], 2)>>,
                <<"setting",
                  JsonObject(<< <<"location", JsonString(s.setting.location)>> >>, 2)>>,
                <<"memories", JsonArray(JsonStrings(s.memories), 2)>>,
                <<"importance", ToString(s.importance)>>,
                <<"ideas", JsonArray(JsonStrings(s.ideas), 2)>> >>, 0)

(***************************************************************************)
(* The zod schemas handed to generateObject, and what they accept.         *)
(***************************************************************************)
\* enum Type
Type == {"Short Story"}

\* .max(10) of the segments array
MaxSegments == 10

\* z.string().max(n)
StringMax(s, n) == Len(s) <= n

\* z.string().max(n).array().min(lo).max(hi)
StringArray(arr, n, lo, hi) ==
  /\ Len(arr) >= lo
  /\ Len(arr) <= hi
  /\ \A i \in DOMAIN arr : StringMax(arr[i], n)

AnalysisSchema == [kind |-> "analysis", enum |-> <<>>]

StorySchema == [kind |-> "story", enum |-> <<>>]

\* variant: a schema that does not use the entity names
SegmentsSchemaFixed(names) == [kind |-> "segments", enum |-> <<"Ava", "Bo">>]

\* the one schema built from a run-time value: z.enum(entityNames)
SegmentsSchema(names) == [kind |-> "segments", enum |-> names]

ContentSchema == [kind |-> "content", enum |-> <<>>]

ValidAnalysis(o) ==
  /\ o.type \in Type
  /\ StringArray(o.genres, 100, 1, 10)
  /\ StringArray(o.themes, 100, 1, 5)
  /\ StringArray(o.extraRequests, 500, 0, 5)
  /\ StringArray(o.userInfo, 200, 0, 3)
  /\ StringArray(o.topicInformation, 500, 0, 5)

ValidEntity(e) ==
  /\ StringMax(e.name, 50)
  /\ StringMax(e.description, 500)
  /\ StringMax(e.role, 100)
  /\ StringArray(e.traits, 200, 1, 5)
  /\ StringArray(e.strengths, 200, 1, 5)
  /\ StringArray(e.weaknesses, 200, 1, 5)
  /\ StringMax(e.motivation, 200)

ValidStory(o) ==
  /\ StringMax(o.title, 100)
  /\ Len(o.entities) >= 1
  /\ Len(o.entities) <= 10
  /\ \A i \in DOMAIN o.entities : ValidEntity(o.entities[i])
  /\ StringMax(o.setting.location, 200)
  /\ StringMax(o.setting.timePeriod, 100)
  /\ StringMax(o.setting.atmosphere, 200)
  /\ StringArray(o.plotPoints, 500, 1, 10)

\* variant: the name is any short string, not one of the enum
ValidSegmentEntityAnyName(e, enum) ==
  /\ StringMax(e.name, 50)
  /\ StringMax(e.mood, 100)

ValidSegmentEntity(e, enum) ==
  /\ e.name \in Range(enum)
  /\ StringMax(e.mood, 100)

ValidSegment(s, enum) ==
  /\ StringMax(s.title, 100)
  /\ Len(s.entities) >= 1
  /\ Len(s.entities) <= 5
  /\ \A i \in DOMAIN s.entities : ValidSegmentEntity(s.entities[i], enum)
  /\ StringMax(s.setting.location, 200)
  /\ StringArray(s.memories, 200, 0, 5)
  /\ s.importance \in Int
  /\ s.importance >= 1
  /\ s.importance <= 10
  /\ \A i \in DOMAIN s.ideas : s.ideas[i] \in STRING

ValidSegments(o, enum) ==
  /\ Len(o.segments) >= 1
  /\ Len(o.segments) <= MaxSegments
  /\ \A i \in DOMAIN o.segments : ValidSegment(o.segments[i], enum)

\* z.string().array(): any array of strings
ValidContent(o) == \A i \in DOMAIN o.content : o.content[i] \in STRING

\* generateObject accepts the model's answer only if the schema parses it
Accepts(schema, o) ==
  CASE schema.kind = "analysis" -> ValidAnalysis(o)
    [] schema.kind = "story"    -> ValidStory(o)
    [] schema.kind = "segments" -> ValidSegments(o, schema.enum)
    [] schema.kind = "content"  -> ValidContent(o)

(***************************************************************************)
(* The inputs of a run: what the user types and answers, what the language *)
(* model answers (valid and invalid against the schemas), the clock.       *)
(***************************************************************************)
\* characters typed at 'Enter a prompt for the AI to generate a story:'
TypedPrompts == { <<" ", "a", " ", "k", "n", "i", "g", "h", "t", "\n">>,
                  <<"s", "e", "a">> }

BaseAnalysis ==
  [type |-> "Short Story", genres |-> <<"fantasy">>, themes |-> <<"courage">>,
   extraRequests |-> <<>>, userInfo |-> <<>>, topicInformation |-> <<>>]

RawAnalyses ==
  { BaseAnalysis,
    [BaseAnalysis EXCEPT !.genres = <<"noir", "mystery">>, !.extraRequests = <<"rhyme">>],
    [BaseAnalysis EXCEPT !.type = "Novel"],
    [BaseAnalysis EXCEPT !.genres = <<>>],
    [BaseAnalysis EXCEPT !.themes = [i \in 1..6 |-> "theme"]],
    [BaseAnalysis EXCEPT !.userInfo = <<Repeat("x", 201)>>] }

Entity(name) ==
  [name |-> name, description |-> "d", role |-> "protagonist",
   traits |-> <<"brave">>, strengths |-> <<"wit">>, weaknesses |-> <<"pride">>,
   motivation |-> "home"]

BaseStory(title, names) ==
  [title |-> title,
   entities |-> [i \in DOMAIN names |-> Entity(names[i])],
   setting |-> [location |-> "coast", timePeriod |-> "now", atmosphere |-> "dark"],
   plotPoints |-> <<"storm">>]

RawStories ==
  { BaseStory("The Tide", <<"Ava">>),
    BaseStory("The Tide", <<"Ava", "Bo">>),
    BaseStory("The Tide", <<>>),
    BaseStory("The Tide", [i \in 1..11 |-> "Ava"]),
    BaseStory(Repeat("t", 101), <<"Ava">>),
    BaseStory("The Tide", <<Repeat("n", 51)>>) }

PlanNames == {"Ava", "Bo", "Zed"}

Segment(k, name, importance) ==
  [title |-> "Part " \o ToString(k),
   entities |-> <<[name |-> name, mood |-> "calm"]>>,
   setting |-> [location |-> "pier"],
   memories |-> <<>>,
   importance |-> importance,
   ideas |-> <<"idea">>]

\* a plan of n segments about "Ava" whose last segment is about `last`
Plan(n, last, importance) ==
  [segments |-> [k \in 1..n |->
                   Segment(k, IF k = n THEN last ELSE "Ava", importance)]]

RawPlans ==
  {Plan(n, last, 1) : n \in 0..MaxShortPlan, last \in PlanNames}
    \cup {Plan(MaxSegments, "Bo", 1), Plan(MaxSegments + 1, "Bo", 1)}
    \cup {Plan(1, "Ava", 0), Plan(2, "Ava", 11)}

RawContents == { [content |-> <<>>],
                 [content |-> <<"Once.", "Then.">>] }

\* values of Date.now()
Clock == {1, 2}

Undefined == [undefined |-> TRUE]

(***************************************************************************)
(* State of run.  pc names the await the script is suspended at.           *)
(***************************************************************************)
CallStages == {"analysis", "metadata", "segments", "content"}

Init ==
  /\ pc = "initialPrompt"
  /\ prompt = ""
  /\ result = Undefined
  /\ story = Undefined
  /\ entityNames = <<>>
  /\ segments = Undefined
  /\ iter = 1
  /\ generatedSegments = <<>>
  /\ calls = <<>>
  /\ files = <<>>
  /\ trace = <<>>

\* console.log(text) and console.log(text, object)
Log(text) == [ev |-> "log", text |-> text, object |-> Undefined]

\* variant: the object is left out of the console.log call
LogWithoutObject(text, object) == Log(text)

LogObject(text, object) == [ev |-> "log", text |-> text, object |-> object]

\* inquirer confirm answered
Confirm(name, answer) == [ev |-> "confirm", name |-> name, answer |-> answer]

\* generateObject({model, schema, providerOptions, maxRetries, prompt})
Request(stage, schema, maxRetries, slots) ==
  [stage |-> stage, schema |-> schema, maxRetries |-> maxRetries, prompt |-> slots]

Called(n) == [ev |-> "call", n |-> n]

\* the n-th call resolved with the object the schema accepted
Returned(n, object) == [ev |-> "return", n |-> n, object |-> object]

Threw(n) == [ev |-> "throw", n |-> n]

Null == [null |-> TRUE]

\* the promise of run rejects: nothing in run catches, nothing runs after
Reject(event) ==
  /\ pc' = "rejected"
  /\ trace' = Append(trace, event)

\* variant: the message is logged but the script does not return
CancelWithoutReturn(name) ==
  /\ pc' = pc
  /\ trace' = trace \o <<Confirm(name, FALSE), Log("Text generation cancelled.")>>

\* 'Text generation cancelled.' and return
Cancel(name) ==
  /\ pc' = "cancelled"
  /\ trace' = trace \o <<Confirm(name, FALSE), Log("Text generation cancelled.")>>

(***************************************************************************)
(* Lines 18-81: the prompt form, then the prompt analysis call.            *)
(***************************************************************************)
AnalysisRequest(p) ==
  Request("analysis", AnalysisSchema, 5, [prompt |-> p])

InitialPrompt ==
  /\ pc = "initialPrompt"
  /\ \E typed \in TypedPrompts, start \in BOOLEAN :
       IF ~start
       THEN /\ Cancel("start")
            /\ UNCHANGED <<prompt, calls>>
       ELSE /\ prompt' = Trim(typed)
            /\ calls' = Append(calls, AnalysisRequest(prompt'))
            /\ trace' = trace \o <<Confirm("start", TRUE),
                                   Log("Starting the AI text generation script..."),
                                   Called(Len(calls'))>>
            /\ pc' = "analysis"
  /\ UNCHANGED <<result, story, entityNames, segments, iter, generatedSegments, files>>

\* generateObject resolves (lines 38-83) and the script asks to continue
AnalysisSettles ==
  /\ pc = "analysis"
  /\ \E raw \in RawAnalyses :
       IF Accepts(calls[Len(calls)].schema, raw)
       THEN /\ result' = raw
            /\ trace' = trace \o <<Returned(Len(calls), raw),
                                   LogObject("Prompt analysis result: ", raw)>>
            /\ pc' = "continueMetadata"
       ELSE /\ Reject(Threw(Len(calls)))
            /\ UNCHANGED result
  /\ UNCHANGED <<prompt, story, entityNames, segments, iter, generatedSegments,
                 calls, files>>

(***************************************************************************)
(* Lines 84-168: continue with story metadata?                             *)
(***************************************************************************)
\* variant: another retry count for this call
MetadataRequestFewerRetries(p, r) ==
  Request("metadata", StorySchema, 3,
          [prompt |-> p, analysis |-> StringifyAnalysis(r)])

MetadataRequest(p, r) ==
  Request("metadata", StorySchema, 5,
          [prompt |-> p, analysis |-> StringifyAnalysis(r)])

ContinueMetadata ==
  /\ pc = "continueMetadata"
  /\ \E continue \in BOOLEAN :
       IF ~continue
       THEN /\ Cancel("metadata")
            /\ UNCHANGED calls
       ELSE /\ calls' = Append(calls, MetadataRequest(prompt, result))
            /\ trace' = trace \o <<Confirm("metadata", TRUE),
                                   Log("Continuing with story metadata..."),
                                   Called(Len(calls'))>>
            /\ pc' = "metadata"
  /\ UNCHANGED <<prompt, result, story, entityNames, segments, iter,
                 generatedSegments, files>>

MetadataSettles ==
  /\ pc = "metadata"
  /\ \E raw \in RawStories :
       IF Accepts(calls[Len(calls)].schema, raw)
       THEN /\ story' = raw
            /\ trace' = trace \o <<Returned(Len(calls), raw),
                                   LogObject("Story metadata result: ", raw)>>
            /\ pc' = "continueSegments"
       ELSE /\ Reject(Threw(Len(calls)))
            /\ UNCHANGED story
  /\ UNCHANGED <<prompt, result, entityNames, segments, iter, generatedSegments,
                 calls, files>>

(***************************************************************************)
(* Lines 169-238: continue with the story segments?                        *)
(***************************************************************************)
\* story.object.entities.map(entity => entity.name)
EntityNames(s) == Names(s.entities)

SegmentsRequest(p, r, s, names) ==
  Request("segments", SegmentsSchema(names), 5,
          [prompt |-> p, analysis |-> StringifyAnalysis(r),
           story |-> StringifyStory(s)])

ContinueSegments ==
  /\ pc = "continueSegments"
  /\ \E continue \in BOOLEAN :
       IF ~continue
       THEN /\ Cancel("segments")
            /\ UNCHANGED <<entityNames, calls>>
       ELSE /\ entityNames' = EntityNames(story)
            /\ calls' = Append(calls, SegmentsRequest(prompt, result, story, entityNames'))
            /\ trace' = trace \o <<Confirm("segments", TRUE),
                                   Log("Continuing with story segments..."),
                                   Called(Len(calls'))>>
            /\ pc' = "segments"
  /\ UNCHANGED <<prompt, result, story, segments, iter, generatedSegments, files>>

SegmentsSettles ==
  /\ pc = "segments"
  /\ \E raw \in RawPlans :
       IF Accepts(calls[Len(calls)].schema, raw)
       THEN /\ segments' = raw
            /\ trace' = trace \o <<Returned(Len(calls), raw),
                                   LogObject("Story segments result: ", raw)>>
            /\ pc' = "continueContent"
       ELSE /\ Reject(Threw(Len(calls)))
            /\ UNCHANGED segments
  /\ UNCHANGED <<prompt, result, story, entityNames, iter, generatedSegments,
                 calls, files>>

(***************************************************************************)
(* Lines 239-293: continue with the content?  The loop over the planned    *)
(* segments, then the output file.                                         *)
(***************************************************************************)
\* variant: the first generated segment instead of the last
PreviousSegmentFirst(gs) == IF Len(gs) = 0 THEN Null ELSE gs[1]

\* line 256
PreviousSegment(gs) == IF Len(gs) = 0 THEN Null ELSE gs[Len(gs)]

\* line 275
PreviousText(previousSegment) ==
  IF previousSegment /= Null
  THEN "Title: " \o previousSegment.title \o "\nContent: "
         \o Join(previousSegment.content, "\n")
  ELSE "No previous segment."

ContentRequest(p, r, s, segment, previousSegment) ==
  Request("content", ContentSchema, 5,
          [prompt |-> p, analysis |-> StringifyAnalysis(r),
           story |-> StringifyStory(s), segment |-> StringifySegment(segment),
           previous |-> PreviousText(previousSegment)])

\* variant: unshift instead of push
PushFront(gs, segment, generatedSegment) ==
  <<[title |-> segment.title, content |-> generatedSegment.content]>> \o gs

\* variant: a segment with no content is not kept
PushNonEmpty(gs, segment, generatedSegment) ==
  IF generatedSegment.content = <<>> THEN gs
  ELSE Append(gs, [title |-> segment.title, content |-> generatedSegment.content])

\* lines 286-289
Push(gs, segment, generatedSegment) ==
  Append(gs, [title |-> segment.title, content |-> generatedSegment.content])

\* line 292, the file name
OutputPath(now) == "data/" \o ToString(now) \o "-output.txt"

\* line 292, the file contents
OutputText(title, gs) ==
  "# " \o title \o "\n\n"
    \o Join([i \in DOMAIN gs |->
               "## " \o gs[i].title \o "\n\n" \o Join(gs[i].content, "\n") \o "\n"],
            "\n")

Wrote == [ev |-> "write"]

WriteThrew == [ev |-> "writeThrow"]

\* fs.writeFileSync either writes the file or throws (no data directory)
WriteFile(gs, tr) ==
  \E ok \in BOOLEAN, now \in Clock :
    IF ok
    THEN /\ files' = Append(files, [path |-> OutputPath(now),
                                    text |-> OutputText(story.title, gs)])
         /\ trace' = tr \o <<Wrote, Log("Text generation completed successfully.")>>
         /\ pc' = "done"
    ELSE /\ files' = files
         /\ trace' = Append(tr, WriteThrew)
         /\ pc' = "rejected"

\* variant: the loop stops one segment early
LoopStopsEarly(plan, gs, it, tr) ==
  IF it < Len(plan)
  THEN /\ calls' = Append(calls, ContentRequest(prompt, result, story, plan[it],
                                                PreviousSegment(gs)))
       /\ trace' = tr \o <<Log("Segment Title: " \o plan[it].title),
                           Called(Len(calls'))>>
       /\ pc' = "content"
       /\ UNCHANGED files
  ELSE /\ WriteFile(gs, tr)
       /\ UNCHANGED calls

\* the for-of loop at iterator position it: the next content call, or past
\* the last segment the file write
Loop(plan, gs, it, tr) ==
  IF it <= Len(plan)
  THEN /\ calls' = Append(calls, ContentRequest(prompt, result, story, plan[it],
                                                PreviousSegment(gs)))
       /\ trace' = tr \o <<Log("Segment Title: " \o plan[it].title),
                           Called(Len(calls'))>>
       /\ pc' = "content"
       /\ UNCHANGED files
  ELSE /\ WriteFile(gs, tr)
       /\ UNCHANGED calls

ContinueContent ==
  /\ pc = "continueContent"
  /\ \E continue \in BOOLEAN :
       IF ~continue
       THEN /\ Cancel("content")
            /\ UNCHANGED <<generatedSegments, iter, calls, files>>
       ELSE /\ generatedSegments' = <<>>
            /\ iter' = 1
            /\ Loop(segments.segments, generatedSegments', iter',
                    Append(trace, Confirm("content", TRUE)))
  /\ UNCHANGED <<prompt, result, story, entityNames, segments>>

ContentSettles ==
  /\ pc = "content"
  /\ \E raw \in RawContents :
       IF Accepts(calls[Len(calls)].schema, raw)
       THEN /\ generatedSegments' = Push(generatedSegments, segments.segments[iter], raw)
            /\ iter' = iter + 1
            /\ Loop(segments.segments, generatedSegments', iter',
                    Append(trace, Returned(Len(calls), raw)))
       ELSE /\ Reject(Threw(Len(calls)))
            /\ UNCHANGED <<generatedSegments, iter, calls, files>>
  /\ UNCHANGED <<prompt, result, story, entityNames, segments>>

\* generateObject rejects once the SDK has used up its retries
CallFails ==
  /\ pc \in CallStages
  /\ Reject(Threw(Len(calls)))
  /\ UNCHANGED <<prompt, result, story, entityNames, segments, iter,
                 generatedSegments, calls, files>>

\* a pending generateObject promise settles: it rejects or it resolves
Settle ==
  \/ CallFails
  \/ AnalysisSettles
  \/ MetadataSettles
  \/ SegmentsSettles
  \/ ContentSettles

Next ==
  \/ InitialPrompt
  \/ AnalysisSettles
  \/ ContinueMetadata
  \/ MetadataSettles
  \/ ContinueSegments
  \/ SegmentsSettles
  \/ ContinueContent
  \/ ContentSettles
  \/ CallFails

Spec == Init /\ [][Next]_vars

\* a pending generateObject promise settles, and the awaiting script resumes
LiveSpec == Spec /\ WF_vars(Settle)

(***************************************************************************)
(* Reading the history of a run.                                           *)
(***************************************************************************)
IsCall(i, n) == trace[i].ev = "call" /\ trace[i].n = n

IsReturn(i, n) == trace[i].ev = "return" /\ trace[i].n = n

HasReturned(n) == \E i \in DOMAIN trace : IsReturn(i, n)

\* the object the n-th call resolved with
ResponseOf(n) == trace[CHOOSE i \in DOMAIN trace : IsReturn(i, n)].object

\* the stage of the n-th model call of a run
StageOfCall(n) ==
  IF n = 1 THEN "analysis"
  ELSE IF n = 2 THEN "metadata"
  ELSE IF n = 3 THEN "segments"
  ELSE "content"

ContentCalls == {n \in DOMAIN calls : calls[n].stage = "content"}

PlanAccepted == segments /= Undefined

(***************************************************************************)
(* C1: model calls happen in the order prompt analysis, story metadata,    *)
(* segment plan, segment content; a call is issued only after the call     *)
(* before it has returned an accepted response; the file is written only   *)
(* after the last content call has returned.                               *)
(***************************************************************************)
C1_StagedOrder ==
  /\ \A n \in DOMAIN calls : calls[n].stage = StageOfCall(n)
  /\ \A n \in DOMAIN calls, j \in DOMAIN trace :
       (n > 1 /\ IsCall(j, n)) => \E i \in 1..(j - 1) : IsReturn(i, n - 1)
  /\ \A w \in DOMAIN trace :
       trace[w].ev = "write" =>
         /\ calls /= <<>>
         /\ calls[Len(calls)].stage = "content"
         /\ \A n \in DOMAIN calls : \E i \in 1..(w - 1) : IsReturn(i, n)
  /\ files /= <<>> => \E w \in DOMAIN trace : trace[w].ev = "write"

C1_Witness == pc = "done" /\ files /= <<>> /\ Len(calls) = 6

(***************************************************************************)
(* C2: the content request for the segment at position i > 1 carries the   *)
(* title and the generated content of the segment at position i - 1 and of *)
(* no other; the request for the first segment carries                     *)
(* 'No previous segment.'.                                                 *)
(***************************************************************************)
C2_RollingContext ==
  \A n \in ContentCalls :
    /\ PlanAccepted
    /\ n > 3
    /\ calls[n].prompt.previous =
         IF n = 4 THEN "No previous segment."
         ELSE "Title: " \o segments.segments[n - 4].title \o "\nContent: "
                \o Join(ResponseOf(n - 1).content, "\n")

C2_Witness ==
  /\ Len(calls) = 7
  /\ ResponseOf(4).content /= ResponseOf(5).content
  /\ ResponseOf(5).content /= ResponseOf(6).content

(***************************************************************************)
(* C3: every entity name of an accepted segment plan is the name of an     *)
(* entity of the story metadata accepted before it; no other plan reaches  *)
(* the content loop.                                                       *)
(***************************************************************************)
C3_PlanNamesKnown ==
  /\ PlanAccepted =>
       \A k \in DOMAIN segments.segments :
         \A e \in DOMAIN segments.segments[k].entities :
           \E m \in DOMAIN story.entities :
             segments.segments[k].entities[e].name = story.entities[m].name
  /\ pc \in {"continueContent", "content", "done"} => PlanAccepted
  /\ ContentCalls /= {} => PlanAccepted

C3_Witness ==
  /\ pc = "content"
  /\ Len(story.entities) = 2
  /\ \E k \in DOMAIN segments.segments : segments.segments[k].entities[1].name = "Bo"

(***************************************************************************)
(* C4: on a completed run the file holds the story title followed by one   *)
(* section per planned segment in plan order; the k-th section holds the   *)
(* k-th planned title and the content generated for that segment.          *)
(***************************************************************************)
SectionOf(k) ==
  "## " \o segments.segments[k].title \o "\n\n"
    \o Join(ResponseOf(3 + k).content, "\n") \o "\n"

C4_FileHoldsPlan ==
  pc = "done" =>
    /\ Len(files) = 1
    /\ Len(generatedSegments) = Len(segments.segments)
    /\ \A k \in DOMAIN generatedSegments :
         /\ generatedSegments[k].title = segments.segments[k].title
         /\ generatedSegments[k].content = ResponseOf(3 + k).content
    /\ files[1].text =
         "# " \o story.title \o "\n\n"
           \o Join([k \in DOMAIN segments.segments |-> SectionOf(k)], "\n")

C4_Witness ==
  /\ pc = "done"
  /\ Len(segments.segments) = 3
  /\ ResponseOf(4).content /= ResponseOf(5).content
  /\ ResponseOf(5).content /= ResponseOf(6).content

(***************************************************************************)
(* C5 (as stated): for every model call after the first, the schema that   *)
(* validates the response depends on the response accepted in the stage    *)
(* before it: another accepted response there would have given another     *)
(* schema.                                                                 *)
(***************************************************************************)
AcceptableAnalyses == {r \in RawAnalyses : ValidAnalysis(r)}

AcceptableStories == {s \in RawStories : ValidStory(s)}

\* the schema run hands to generateObject at the call of `stage` when the
\* stage before it was accepted with `previous`
SchemaOf(stage, previous) ==
  CASE stage = "analysis" -> AnalysisSchema
    [] stage = "metadata" -> StorySchema
    [] stage = "segments" -> SegmentsSchema(EntityNames(previous))
    [] stage = "content"  -> ContentSchema

\* the responses the stage before the n-th call may be accepted with
AcceptableBefore(n) ==
  CASE calls[n].stage = "metadata" -> AcceptableAnalyses
    [] calls[n].stage = "segments" -> AcceptableStories
    [] calls[n].stage = "content"  ->
         IF n = 4 THEN {p \in RawPlans : ValidSegments(p, entityNames)}
         ELSE RawContents
    [] OTHER -> {}

\* the response the stage before the n-th call was accepted with
AcceptedBefore(n) == IF n > 1 THEN ResponseOf(n - 1) ELSE Undefined

\* another accepted response before the n-th call would have changed its schema
SchemaDependsOnPrevious(n) ==
  \E alt \in AcceptableBefore(n) : SchemaOf(calls[n].stage, alt) /= calls[n].schema

C5_EverySchemaDepends ==
  \A n \in DOMAIN calls : n > 1 => SchemaDependsOnPrevious(n)

(***************************************************************************)
(* C5 (amended): only the segment plan's schema depends on the stage       *)
(* before it: its entity-name enum is the list of entity names of the      *)
(* accepted story metadata.  The schemas of the analysis, metadata and     *)
(* content calls are fixed, whatever was accepted before.                  *)
(***************************************************************************)
C5_OnlyPlanSchemaDepends ==
  \A n \in DOMAIN calls :
    /\ HasReturned(n - 1) => calls[n].schema = SchemaOf(calls[n].stage, AcceptedBefore(n))
    /\ calls[n].stage = "analysis" => calls[n].schema = AnalysisSchema
    /\ calls[n].stage = "metadata" =>
         /\ calls[n].schema = StorySchema
         /\ ~SchemaDependsOnPrevious(n)
    /\ calls[n].stage = "segments" =>
         /\ calls[n].schema.kind = "segments"
         /\ calls[n].schema.enum = Names(ResponseOf(2).entities)
         /\ SchemaDependsOnPrevious(n)
    /\ calls[n].stage = "content" =>
         /\ calls[n].schema = ContentSchema
         /\ ~SchemaDependsOnPrevious(n)

C5_Witness ==
  /\ pc = "content"
  /\ Len(calls) = 5
  /\ calls[3].schema.enum = <<"Ava", "Bo">>

(***************************************************************************)
(* C6 (as stated): every model call is directly preceded by a user         *)
(* confirmation answered yes, and every model call's result is printed     *)
(* and followed by a continue-confirmation before the next model call.     *)
(***************************************************************************)
\* the event before position j, console output aside
OnlyLogsBetween(i, j) == \A m \in (i + 1)..(j - 1) : trace[m].ev = "log"

ConfirmedYesBefore(j) ==
  \E i \in 1..(j - 1) :
    /\ trace[i].ev = "confirm"
    /\ trace[i].answer
    /\ OnlyLogsBetween(i, j)

PrintedAt(i) ==
  /\ i + 1 \in DOMAIN trace
  /\ trace[i + 1].ev = "log"
  /\ trace[i + 1].object = trace[i].object

C6_EveryCallConfirmed ==
  /\ \A j \in DOMAIN trace : trace[j].ev = "call" => ConfirmedYesBefore(j)
  /\ \A i \in DOMAIN trace : trace[i].ev = "return" => PrintedAt(i)

(***************************************************************************)
(* C6 (amended): the analysis, metadata and segment-plan calls and the     *)
(* first content call are each directly preceded (console output aside)    *)
(* by a confirmation answered yes; the results of the first three are      *)
(* printed right after they return.  Every later content call directly     *)
(* follows the return of the content call before it, with no confirmation, *)
(* and no content result is printed.                                       *)
(***************************************************************************)
C6_ConfirmedUpToFirstContent ==
  /\ \A j \in DOMAIN trace :
       trace[j].ev = "call" =>
         IF trace[j].n <= 4 THEN ConfirmedYesBefore(j)
         ELSE \E i \in 1..(j - 1) : IsReturn(i, trace[j].n - 1) /\ OnlyLogsBetween(i, j)
  /\ \A i \in DOMAIN trace :
       trace[i].ev = "return" =>
         IF trace[i].n <= 3 THEN PrintedAt(i) ELSE ~PrintedAt(i)
  /\ \A i \in DOMAIN trace :
       (trace[i].ev = "log" /\ trace[i].object /= Undefined) =>
         /\ i > 1
         /\ trace[i - 1].ev = "return"
         /\ trace[i - 1].n <= 3

C6_Witness ==
  /\ pc = "content"
  /\ Len(calls) = 6
  /\ IsReturn(Len(trace) - 2, 5)
  /\ IsCall(Len(trace), 6)

(***************************************************************************)
(* C7: a file has been written only if content has been generated for      *)
(* every planned segment; a run writes at most one file.                   *)
(***************************************************************************)
C7_NoIntermediateFile ==
  /\ Len(files) <= 1
  /\ Cardinality({w \in DOMAIN trace : trace[w].ev = "write"}) = Len(files)
  /\ files /= <<>> =>
       /\ pc = "done"
       /\ PlanAccepted
       /\ Len(generatedSegments) = Len(segments.segments)
       /\ \A k \in DOMAIN segments.segments : HasReturned(3 + k)

C7_Witness ==
  /\ files /= <<>>
  /\ Len(segments.segments) = 2

(***************************************************************************)
(* C8: every model call is issued with retry count 5; run never issues a   *)
(* second call for a stage or a segment; when a call fails the run ends    *)
(* there, with no later call and no output file.                           *)
(***************************************************************************)
C8_RetriesLeftToSdk ==
  /\ \A n \in DOMAIN calls : calls[n].maxRetries = 5
  /\ \A m, n \in DOMAIN calls :
       (m /= n /\ calls[m].stage = calls[n].stage) => calls[n].stage = "content"
  /\ \A n \in ContentCalls :
       /\ PlanAccepted
       /\ n - 3 \in DOMAIN segments.segments
       /\ calls[n].prompt.segment = StringifySegment(segments.segments[n - 3])
  /\ \A i \in DOMAIN trace :
       trace[i].ev = "throw" =>
         /\ i = Len(trace)
         /\ trace[i].n = Len(calls)
         /\ ~HasReturned(trace[i].n)
         /\ files = <<>>
         /\ pc = "rejected"
  /\ pc = "rejected" => ~ENABLED Next

C8_Witness ==
  /\ pc = "rejected"
  /\ trace[Len(trace)].ev = "throw"
  /\ Len(calls) = 5

(***************************************************************************)
(* C9: when the user answers no at any of the four confirmations the run   *)
(* ends as cancelled, no model call is issued afterwards and no file is    *)
(* written; declining the start confirmation means no model call at all.   *)
(***************************************************************************)
C9_Cancellation ==
  /\ \A i \in DOMAIN trace :
       (trace[i].ev = "confirm" /\ ~trace[i].answer) =>
         /\ pc = "cancelled"
         /\ files = <<>>
         /\ \A j \in (i + 1)..Len(trace) : trace[j].ev = "log"
         /\ trace[i].name = "start" => calls = <<>>
  /\ pc = "cancelled" =>
       /\ ~ENABLED Next
       /\ \E i \in DOMAIN trace : trace[i].ev = "confirm" /\ ~trace[i].answer

C9_Witness ==
  /\ pc = "cancelled"
  /\ Len(calls) = 3
  /\ trace[Len(trace) - 1] = Confirm("content", FALSE)

(***************************************************************************)
(* C10: an accepted plan has 1 to 10 segments; the loop issues one content *)
(* call per planned segment, in plan order, with generatedSegments.length  *)
(* equal to the number of segments processed; if every model call returns, *)
(* the run reaches the file write after N content calls, 3 + N model calls *)
(* in all.                                                                 *)
(***************************************************************************)
C10_FanOut ==
  /\ PlanAccepted =>
       /\ Len(segments.segments) >= 1
       /\ Len(segments.segments) <= MaxSegments
  /\ \A n \in ContentCalls :
       /\ n - 3 \in DOMAIN segments.segments
       /\ calls[n].prompt.segment = StringifySegment(segments.segments[n - 3])
  /\ Len(generatedSegments) = Cardinality({n \in ContentCalls : HasReturned(n)})
  /\ pc = "content" =>
       /\ Cardinality(ContentCalls) = iter
       /\ Len(generatedSegments) = iter - 1
  /\ pc = "done" =>
       /\ Cardinality(ContentCalls) = Len(segments.segments)
       /\ Len(calls) = 3 + Len(segments.segments)

CallThrew == trace /= <<>> /\ trace[Len(trace)].ev = "throw"

WriteReached ==
  /\ pc \in {"done", "rejected"}
  /\ \E w \in DOMAIN trace : trace[w].ev \in {"write", "writeThrow"}
  /\ Len(calls) = 3 + Len(segments.segments)
  /\ Len(generatedSegments) = Len(segments.segments)

\* C10: the fan-out invariant always holds, and a run waiting for a content
\* call reaches the file write with 3 + N calls made, unless a call throws.
C10_BoundedFanOut ==
  /\ []C10_FanOut
  /\ (pc = "content") ~> (CallThrew \/ WriteReached)

C10_Witness ==
  /\ pc = "done"
  /\ Len(segments.segments) = MaxSegments
  /\ Len(calls) = 3 + MaxSegments

====
